---- MODULE Spec2Model ----
(***************************************************************************)
(* Model of the useReactiveForm hook (use-reactive-form 1.1.8).            *)
(*                                                                         *)
(* JavaScript strings are sequences of one-character strings, so that      *)
(* split / replace / join are computed the way the code computes them.     *)
(* JavaScript values are tagged records; the properties of an object or an *)
(* array are an association list in enumeration order.                     *)
(***************************************************************************)
EXTENDS Integers, Sequences, FiniteSets, TLC

VARIABLES
    fields,            \* the object the host passes as `fields` (same object on every render)
    aliased,           \* TRUE while form.current is that very object
    form,              \* form.current
    validationObject,  \* validationObject.current
    errorsMap,         \* errorsMap.current: set of [k |-> path, v |-> message]
    fieldsMap,         \* names flattenObject(fields) marks as existing
    classes,           \* classList of every element of the form
    domValue,          \* element.value of every element
    last,              \* what the latest operation did
    prev,              \* what the operation before it did
    steps,             \* operations performed so far
    probe,             \* a path resolved and written outside any form
    config,            \* what the host passes to the hook, and the trees it commits
    listeners,         \* the event listeners every element carries
    bound,             \* the render whose effect installed the live listeners
    mounted,           \* the component is mounted
    pending            \* the listeners of the event being dispatched that have yet to run

vars == <<fields, aliased, form, validationObject, errorsMap, fieldsMap,
          classes, domValue, last, prev, steps, probe, config,
          listeners, bound, mounted, pending>>

\* the state of the event binding
bindVars == <<listeners, bound, mounted, pending>>

\* Longest run of operations explored
MaxSteps == 3

\* Longest key sequence joined into an element name
MaxKeys == 3

\* ------------------------------------------------------------------------
\* Strings

DigitChars == <<"0", "1", "2", "3", "4", "5", "6", "7", "8", "9">>

IsDigit(c) == \E i \in 1..Len(DigitChars) : DigitChars[i] = c

\* /\w/ on one character, for the characters the model uses
IsWordChar(c) == c \in {"a", "b", "m", "n", "p", "r", "t", "u", "x", "_"} \/ IsDigit(c)

\* String(i) for a small index
IdxKey(i) == <<DigitChars[i + 1]>>

\* s.indexOf(sub) + 1 (0 when absent)
IndexOf(s, sub) ==
    LET hits == {i \in 1..(Len(s) - Len(sub) + 1) : SubSeq(s, i, i + Len(sub) - 1) = sub}
    IN  IF hits = {} THEN 0 ELSE CHOOSE i \in hits : \A j \in hits : i <= j

\* the string is cut at the first separator only
SplitOnce(s, sep) ==
    IF sep # <<>> /\ IndexOf(s, sep) > 0
    THEN <<SubSeq(s, 1, IndexOf(s, sep) - 1),
           SubSeq(s, IndexOf(s, sep) + Len(sep), Len(s))>>
    ELSE <<s>>

RECURSIVE Split(_, _)
\* s.split(sep), sep a string
Split(s, sep) ==
    IF sep = <<>>
    THEN [i \in 1..Len(s) |-> <<s[i]>>]
    ELSE LET i == IndexOf(s, sep)
         IN  IF i = 0 THEN <<s>>
             ELSE <<SubSeq(s, 1, i - 1)>> \o Split(SubSeq(s, i + Len(sep), Len(s)), sep)

RECURSIVE Join(_, _)
\* keys.join(sep)
Join(keys, sep) ==
    IF keys = <<>> THEN <<>>
    ELSE IF Len(keys) = 1 THEN keys[1]
    ELSE keys[1] \o sep \o Join(Tail(keys), sep)

\* s.replace(sub, rep), sub a string: the first occurrence only
ReplaceFirst(s, sub, rep) ==
    LET i == IndexOf(s, sub)
    IN  IF i = 0 THEN s
        ELSE SubSeq(s, 1, i - 1) \o rep \o SubSeq(s, i + Len(sub), Len(s))

RECURSIVE ReplaceAll(_, _, _)
\* s.replace(new RegExp(sub, 'g'), rep) for a sub without regex metacharacters
ReplaceAll(s, sub, rep) ==
    LET i == IndexOf(s, sub)
    IN  IF sub = <<>> \/ i = 0 THEN s
        ELSE SubSeq(s, 1, i - 1) \o rep \o ReplaceAll(SubSeq(s, i + Len(sub), Len(s)), sub, rep)

RECURSIVE Flatten(_)
\* concatenation of a sequence of strings
Flatten(ss) == IF ss = <<>> THEN <<>> ELSE ss[1] \o Flatten(Tail(ss))

\* !isNaN(+s) for a non-empty s over the model's characters
IsNumeric(s) == s # <<>> /\ \A i \in 1..Len(s) : IsDigit(s[i])

\* ------------------------------------------------------------------------
\* JavaScript values

Undef == [t |-> "undefined", s |-> <<>>, kids |-> <<>>]

StrV(s) == [t |-> "string", s |-> s, kids |-> <<>>]

\* a number, held by its decimal spelling
NumV(s) == [t |-> "number", s |-> s, kids |-> <<>>]

\* an object literal: kids is a sequence of [k |-> key, v |-> value]
ObjV(kids) == [t |-> "object", s |-> <<>>, kids |-> kids]

\* an array literal
ArrV(items) ==
    [t |-> "array", s |-> <<>>,
     kids |-> [i \in 1..Len(items) |-> [k |-> IdxKey(i - 1), v |-> items[i]]]]

Prop(k, v) == [k |-> k, v |-> v]

\* typeof v === 'object' && v !== null && !(v instanceof Date)
IsObjLike(v) == v.t \in {"object", "array"}

\* Array.isArray(v)
IsArray(v) == v.t = "array"

\* JavaScript truthiness
Truthy(v) ==
    CASE v.t = "undefined" -> FALSE
      [] v.t = "string" -> v.s # <<>>
      [] v.t = "number" -> v.s # <<"0">>
      [] OTHER -> TRUE

\* the keys for..in / Object.keys enumerate (the indices, for a string)
OwnKeys(v) ==
    IF IsObjLike(v) THEN [i \in 1..Len(v.kids) |-> v.kids[i].k]
    ELSE IF v.t = "string" THEN [i \in 1..Len(v.s) |-> IdxKey(i - 1)]
    ELSE <<>>

\* v.hasOwnProperty(k)
HasKey(v, k) ==
    IF IsObjLike(v) THEN \E i \in 1..Len(v.kids) : v.kids[i].k = k
    ELSE IF v.t = "string" THEN \E i \in 1..Len(v.s) : IdxKey(i - 1) = k
    ELSE FALSE

\* v[k]
Get(v, k) ==
    IF ~HasKey(v, k) THEN Undef
    ELSE IF v.t = "string"
         THEN StrV(<<v.s[CHOOSE i \in 1..Len(v.s) : IdxKey(i - 1) = k]>>)
         ELSE v.kids[CHOOSE i \in 1..Len(v.kids) : v.kids[i].k = k].v

\* v[k] = x on an object or an array
Set(v, k, x) ==
    IF HasKey(v, k)
    THEN [v EXCEPT !.kids = [i \in 1..Len(v.kids) |->
                                IF v.kids[i].k = k THEN Prop(k, x) ELSE v.kids[i]]]
    ELSE [v EXCEPT !.kids = Append(v.kids, Prop(k, x))]

\* the elements of an array, in order
Items(v) == [i \in 1..Len(v.kids) |-> v.kids[i].v]

RECURSIVE GetPath(_, _)
\* the value read along a key sequence
GetPath(v, keys) ==
    IF keys = <<>> THEN v ELSE GetPath(Get(v, keys[1]), Tail(keys))

\* ------------------------------------------------------------------------
\* The pure helpers of the hook

\* the element argument of findKeyAndUpdateValue when it is null
NoElement == [type |-> "null", tag |-> "null", multiple |-> FALSE, value |-> <<>>, selected |-> <<>>]

\* +value
ToNumber(s) ==
    IF s = <<>> THEN NumV(<<"0">>)
    ELSE IF IsNumeric(s) THEN NumV(s)
    ELSE NumV(<<"N", "a", "N">>)

\* arr.indexOf(value) >= 0
ArrayHas(arr, value) == \E i \in 1..Len(arr.kids) : arr.kids[i].v = StrV(value)

\* the value is appended whether or not it is present
ToggleValueAppend(arr, value) == ArrV(Append(Items(arr), StrV(value)))

\* index < 0 ? [...arr, value] : arr.filter(v => v !== value)
ToggleValue(arr, value) ==
    IF ~ArrayHas(arr, value)
    THEN ArrV(Append(Items(arr), StrV(value)))
    ELSE ArrV(SelectSeq(Items(arr), LAMBDA v : v # StrV(value)))

\* the value the element branch stores in a slot that holds old
ElementValue(old, element) ==
    CASE element.type = "checkbox" ->
            ToggleValue(IF IsArray(old) THEN old ELSE ArrV(<<>>), element.value)
      [] element.type = "radio" ->
            IF old.t = "number" THEN ToNumber(element.value) ELSE StrV(element.value)
      [] element.type # "checkbox" /\ element.type # "radio" /\ element.tag = "SELECT" ->
            IF element.multiple
            THEN ArrV([i \in 1..Len(element.selected) |-> StrV(element.selected[i])])
            ELSE StrV(element.value)
      [] OTHER -> StrV(element.value)

\* what a call of findKeyAndUpdateValue leaves: the object after the call,
\* the returned value, and whether the call threw a TypeError
Walked(obj, ret, threw) == [obj |-> obj, ret |-> ret, threw |-> threw]

\* obj[k] = new; return obj[k]
Wrote(obj, k, new) == Walked(Set(obj, k, new), new, FALSE)

\* { value: old, error: '' }: the message is left out
ErrorPairBlank(old, error) ==
    ObjV(<<Prop(<<"v", "a", "l", "u", "e">>, old),
           Prop(<<"e", "r", "r", "o", "r">>, StrV(<<>>))>>)

\* { value: old, error: error }
ErrorPair(old, error) ==
    ObjV(<<Prop(<<"v", "a", "l", "u", "e">>, old),
           Prop(<<"e", "r", "r", "o", "r">>, StrV(error))>>)

\* the keys.length === 1 branch, old being obj[k]
writeSlot(k, obj, old, element, error) ==
    IF obj.t = "undefined" THEN Walked(obj, Undef, TRUE)
    ELSE IF error # <<>>
    THEN IF IsObjLike(obj) THEN Wrote(obj, k, ErrorPair(old, error))
         ELSE Walked(obj, Undef, TRUE)
    ELSE IF element.type # "null"
    THEN IF IsObjLike(obj) THEN Wrote(obj, k, ElementValue(old, element))
         ELSE Walked(obj, Undef, TRUE)
    ELSE Walked(obj, old, FALSE)

\* the recursion's result carried back into an object that holds obj[k] only
DescendedAlone(obj, k, sub) ==
    Walked(IF IsObjLike(obj) THEN ObjV(<<Prop(k, sub.obj)>>) ELSE obj, sub.ret, sub.threw)

\* the recursion's result carried back into obj[k]
Descended(obj, k, sub) ==
    Walked(IF IsObjLike(obj) THEN Set(obj, k, sub.obj) ELSE obj, sub.ret, sub.threw)

RECURSIVE findKeyAndUpdateValue(_, _, _, _)
\* error = <<>> stands for a missing (or empty, hence falsy) error argument
findKeyAndUpdateValue(keys, obj, element, error) ==
    IF keys = <<>> THEN Walked(obj, Undef, FALSE)
    ELSE IF Len(keys) = 1 THEN writeSlot(keys[1], obj, Get(obj, keys[1]), element, error)
    ELSE IF HasKey(obj, keys[1])
         THEN Descended(obj, keys[1],
                        findKeyAndUpdateValue(Tail(keys), Get(obj, keys[1]), element, error))
         ELSE Walked(obj, Undef, FALSE)

\* one entry of deepCopy's clone: v is obj[key], kept is preserve[key]
RECURSIVE deepCopy(_, _)
copyEntry(key, v, preserve, kept) ==
    IF IsObjLike(v)
    THEN deepCopy(v, IF Truthy(preserve) THEN kept ELSE Undef)
    ELSE IF Truthy(preserve) /\ key # <<>> THEN kept ELSE v

\* preserve = Undef stands for a missing preserve argument
deepCopy(obj, preserve) ==
    ObjV([i \in 1..Len(OwnKeys(obj)) |->
             Prop(OwnKeys(obj)[i],
                  copyEntry(OwnKeys(obj)[i], Get(obj, OwnKeys(obj)[i]), preserve,
                            Get(preserve, OwnKeys(obj)[i])))])

\* the array-element leaf of flattenObject: splitKey is key.split('_')
flattenLeaf(splitKey, map) ==
    IF splitKey[Len(splitKey)] # <<>> /\ IsNumeric(splitKey[Len(splitKey)])
    THEN map \cup {Join(SubSeq(splitKey, 1, Len(splitKey) - 1), <<"_">>)}
    ELSE map

RECURSIVE flattenObject(_, _, _, _, _)
RECURSIVE flattenKeys(_, _, _, _, _)
\* map is the set of the names set to true
flattenObject(obj, separator, key, map, isArray) ==
    IF IsObjLike(obj) THEN flattenKeys(obj, separator, OwnKeys(obj), key, map)
    ELSE IF isArray THEN flattenLeaf(Split(key, <<"_">>), map)
    ELSE map \cup {key}

\* one step of the forEach: newKey is the piece added for k
flattenStep(obj, separator, ks, key, map, newKey) ==
    flattenKeys(obj, separator, Tail(ks), ReplaceFirst(key \o newKey, newKey, <<>>),
                flattenObject(Get(obj, ks[1]), separator, key \o newKey, map, IsArray(obj)))

\* the forEach over Object.keys(obj) of flattenObject, from the keys ks on
flattenKeys(obj, separator, ks, key, map) ==
    IF ks = <<>> THEN map
    ELSE flattenStep(obj, separator, ks, key, map,
                     IF key = <<>> THEN ks[1] ELSE separator \o ks[1])

\* ------------------------------------------------------------------------
\* The host: configuration, initial fields, the elements of the form, the
\* trees it commits, and the validation schema

\* separator = '_'
Separator == <<"_">>

\* validateOnChange, as the host configures it
ValidateOnChange == config.validateOnChange

\* a schema is configured
HasSchema == config.schema # "none"

\* actionOnChange is configured
ActionOnChange == config.actionOnChange

\* updateTriggers = []
UpdateTriggers == {}

MsgRequired == <<"r", "e", "q">>
MsgMax == <<"m", "a", "x">>

KeyU == <<"u">>
KeyT == <<"t">>
KeyB == <<"b">>
KeyN == <<"n">>
KeyR == <<"r">>
KeyM == <<"m">>
KeyP == <<"p">>
KeyValue == <<"v", "a", "l", "u", "e">>
KeyError == <<"e", "r", "r", "o", "r">>

Book(title) == ObjV(<<Prop(KeyN, StrV(title))>>)

\* fields: { u: '', t: ['a'], b: [{ n: '' }] }
InitialFields ==
    ObjV(<<Prop(KeyU, StrV(<<>>)),
           Prop(KeyT, ArrV(<<StrV(<<"a">>)>>)),
           Prop(KeyB, ArrV(<<Book(<<>>)>>))>>)

\* the trees the host passes to update(): one more book, and a tree without u and t
NewTrees ==
    {ObjV(<<Prop(KeyU, StrV(<<"x">>)),
            Prop(KeyT, ArrV(<<StrV(<<"a">>)>>)),
            Prop(KeyB, ArrV(<<Book(<<>>), Book(<<>>)>>))>>),
     ObjV(<<Prop(KeyB, ArrV(<<Book(<<"x">>)>>))>>)}

\* the trees of a host that drops its books: an empty list, and a list whose
\* only element is undefined
ShrunkTrees ==
    {ObjV(<<Prop(KeyU, StrV(<<"x">>)),
            Prop(KeyT, ArrV(<<StrV(<<"a">>)>>)),
            Prop(KeyB, ArrV(<<>>))>>),
     ObjV(<<Prop(KeyU, StrV(<<"x">>)),
            Prop(KeyT, ArrV(<<StrV(<<"a">>)>>)),
            Prop(KeyB, ArrV(<<Undef>>))>>)}

\* fields: { r: 1, m: ['a'], p: ['a'] }
ControlFields ==
    ObjV(<<Prop(KeyR, NumV(<<"1">>)),
           Prop(KeyM, ArrV(<<StrV(<<"a">>)>>)),
           Prop(KeyP, ArrV(<<StrV(<<"a">>)>>))>>)

\* the host of the README: fields, schema, validateOnChange: true
ReadmeHost ==
    [fields |-> InitialFields, trees |-> NewTrees, schema |-> "books",
     validateOnChange |-> TRUE, actionOnChange |-> FALSE]

\* other hosts: one that drops its books, one with radios and selects, the
\* same with actionOnChange, and one with neither schema nor validateOnChange
Hosts ==
    {[fields |-> InitialFields, trees |-> ShrunkTrees, schema |-> "books",
      validateOnChange |-> TRUE, actionOnChange |-> FALSE],
     [fields |-> ControlFields, trees |-> {}, schema |-> "controls",
      validateOnChange |-> TRUE, actionOnChange |-> FALSE],
     [fields |-> ControlFields, trees |-> {}, schema |-> "controls",
      validateOnChange |-> TRUE, actionOnChange |-> TRUE],
     [fields |-> ControlFields, trees |-> {}, schema |-> "none",
      validateOnChange |-> FALSE, actionOnChange |-> FALSE]}

ElementIds == {"eU", "eN", "eN1", "eTa", "eTb", "eR1", "eR2", "eM", "eP"}

\* the attributes of the elements the host renders inside the form
Attr(e) ==
    CASE e = "eU" -> [name |-> <<"u">>, type |-> "text", tag |-> "INPUT",
                      multiple |-> FALSE, dataSelect |-> FALSE]
      [] e = "eN" -> [name |-> <<"b", "_", "0", "_", "n">>, type |-> "text", tag |-> "INPUT",
                      multiple |-> FALSE, dataSelect |-> FALSE]
      [] e = "eTa" -> [name |-> <<"t">>, type |-> "checkbox", tag |-> "INPUT",
                       multiple |-> FALSE, dataSelect |-> FALSE]
      [] e = "eTb" -> [name |-> <<"t">>, type |-> "checkbox", tag |-> "INPUT",
                       multiple |-> FALSE, dataSelect |-> FALSE]
      [] e = "eN1" -> [name |-> <<"b", "_", "1", "_", "n">>, type |-> "text", tag |-> "INPUT",
                       multiple |-> FALSE, dataSelect |-> FALSE]
      [] e = "eR1" -> [name |-> <<"r">>, type |-> "radio", tag |-> "INPUT",
                       multiple |-> FALSE, dataSelect |-> FALSE]
      [] e = "eR2" -> [name |-> <<"r">>, type |-> "radio", tag |-> "INPUT",
                       multiple |-> FALSE, dataSelect |-> FALSE]
      [] e = "eM" -> [name |-> <<"m">>, type |-> "none", tag |-> "SELECT",
                      multiple |-> TRUE, dataSelect |-> TRUE]
      [] e = "eP" -> [name |-> <<"p">>, type |-> "none", tag |-> "SELECT",
                      multiple |-> TRUE, dataSelect |-> FALSE]

\* what the user can type into a text input
TextValues == {<<>>, <<"x">>, <<"x", "x">>}

\* the options the user can leave selected in a select: one character each
Selections == {<<>>, <<"a">>, <<"a", "b">>}

\* element.value of every element when the form is first rendered; for a
\* select, the values of its selected options
InitialDomValue ==
    [e \in ElementIds |->
        CASE e = "eTa" -> <<"a">>
          [] e = "eTb" -> <<"b">>
          [] e = "eR1" -> <<"1">>
          [] e = "eR2" -> <<"2">>
          [] e = "eM" -> <<"a">>
          [] e = "eP" -> <<"a">>
          [] OTHER -> <<>>]

\* the element as findKeyAndUpdateValue reads it: element.value of a select
\* is the value of its first selected option
ElementOf(e, value) ==
    IF Attr(e).tag = "SELECT"
    THEN [type |-> Attr(e).type, tag |-> Attr(e).tag, multiple |-> Attr(e).multiple,
          value |-> IF value = <<>> THEN <<>> ELSE <<value[1]>>, selected |-> [i \in 1..Len(value) |-> <<value[i]>>]]
    ELSE [type |-> Attr(e).type, tag |-> Attr(e).tag, multiple |-> Attr(e).multiple,
          value |-> value, selected |-> <<>>]

\* querySelectorAll(`[name="${name}"]`)
ByName(name) == {e \in ElementIds : Attr(e).name = name}

\* the schema's verdict on one value: <<>> when valid, else the message
\*   u: string().required(MsgRequired).max(1, MsgMax)
\*   t: array().required(MsgRequired)
\*   b: array().of(object().shape({ n: string().required(MsgRequired) }))
\* and of the schema of the host with radios and selects
\*   r: number().max(1, MsgMax)
\*   m, p: array().required(MsgRequired)
RuleMessage(rule, v) ==
    CASE rule = "u" -> IF v.t # "string" \/ v.s = <<>> THEN MsgRequired
                       ELSE IF Len(v.s) > 1 THEN MsgMax ELSE <<>>
      [] rule = "t" -> IF IsArray(v) /\ Len(v.kids) > 0 THEN <<>> ELSE MsgRequired
      [] rule = "n" -> IF v.t # "string" \/ v.s = <<>> THEN MsgRequired ELSE <<>>
      [] rule = "r" -> IF v.t \in {"number", "string"} /\ v.s \notin {<<"0">>, <<"1">>}
                       THEN MsgMax ELSE <<>>

\* the paths the README's schema declares for a tree, in the schema's notation
BookEntries(b) ==
    <<[path |-> <<"u">>, keys |-> <<KeyU>>, rule |-> "u"],
      [path |-> <<"t">>, keys |-> <<KeyT>>, rule |-> "t"]>>
    \o [i \in 1..(IF IsArray(b) THEN Len(b.kids) ELSE 0) |->
           [path |-> <<"b", "[">> \o IdxKey(i - 1) \o <<"]", ".", "n">>,
            keys |-> <<KeyB, IdxKey(i - 1), KeyN>>, rule |-> "n"]]

\* the paths the schema of the host with radios and selects declares
ControlEntries ==
    <<[path |-> <<"r">>, keys |-> <<KeyR>>, rule |-> "r"],
      [path |-> <<"m">>, keys |-> <<KeyM>>, rule |-> "t"],
      [path |-> <<"p">>, keys |-> <<KeyP>>, rule |-> "t"]>>

\* the paths the configured schema declares for a tree
SchemaEntries(values) ==
    IF config.schema = "books" THEN BookEntries(Get(values, KeyB))
    ELSE IF config.schema = "controls" THEN ControlEntries
    ELSE <<>>

MsgNoPath == <<"n", "o", "p", "a", "t", "h">>

MsgTypeError == <<"T", "y", "p", "e", "E", "r", "r", "o", "r">>

\* the schema's verdict on the value a declared path addresses
EntryMessage(values, en) == RuleMessage(en.rule, GetPath(values, en.keys))

\* the verdict at a path, hits being the declared entries with that path
verdictOf(values, hits) ==
    IF hits = <<>> THEN MsgNoPath ELSE EntryMessage(values, hits[1])

\* schema.validateSyncAt(path, values): <<>> when it returns, else e.message;
\* without a schema the call itself is a TypeError
ValidateSyncAt(path, values) ==
    IF ~HasSchema THEN MsgTypeError
    ELSE verdictOf(values, SelectSeq(SchemaEntries(values), LAMBDA en : en.path = path))

\* e.inner for the failed entries
innerOf(values, failed) ==
    [i \in 1..Len(failed) |->
        [path |-> failed[i].path, message |-> EntryMessage(values, failed[i])]]

\* schema.validateSync(values, { abortEarly: false }): e.inner, empty when it returns
ValidateSync(values) ==
    innerOf(values, SelectSeq(SchemaEntries(values),
                              LAMBDA en : EntryMessage(values, en) # <<>>))

\* e.message of the error validateSync throws: the message of a single
\* failure, "<n> errors occurred" for several
AggregateMessage(inner) ==
    IF Len(inner) = 1 THEN inner[1].message
    ELSE IdxKey(Len(inner)) \o <<" ", "e", "r", "r", "o", "r", "s">>

\* ------------------------------------------------------------------------
\* Path notations

\* name[i] (i counted from 0) is a digit; undefined is not
DigitAt(name, i) == i >= 0 /\ i < Len(name) /\ IsDigit(name[i + 1])

\* /\w/.test(name[i]): undefined is tested as the string "undefined"
WordAt(name, i) == i < 0 \/ i >= Len(name) \/ IsWordChar(name[i + 1])

\* .replace(/(_)/g, ...): s1 is the name with the separators replaced by '_'
openBrackets(name, s1) ==
    [i \in 1..Len(s1) |->
        IF s1[i] # "_" THEN s1[i]
        ELSE IF DigitAt(name, i) THEN "["
        ELSE IF DigitAt(name, i - 2) THEN "]"
        ELSE "_"]

\* .replace(/(])/g, ...)
closeBrackets(name, s2) ==
    Flatten([i \in 1..Len(s2) |->
                IF s2[i] = "]" /\ WordAt(name, i) THEN <<"]", ".">> ELSE <<s2[i]>>])

\* the path dynamicValidation passes to the schema and uses as cache key
ToSchemaPath(name, separator) ==
    IF name = <<>> THEN <<>>
    ELSE closeBrackets(name, openBrackets(name, ReplaceAll(name, separator, <<"_">>)))

RECURSIVE SplitPathFrom(_, _)
\* item.path.split(/\[|].|\./), cur being the piece read so far
SplitPathFrom(rest, cur) ==
    IF rest = <<>> THEN <<cur>>
    ELSE IF rest[1] = "[" THEN <<cur>> \o SplitPathFrom(Tail(rest), <<>>)
    ELSE IF rest[1] = "]" /\ Len(rest) >= 2
         THEN <<cur>> \o SplitPathFrom(SubSeq(rest, 3, Len(rest)), <<>>)
    ELSE IF rest[1] = "." THEN <<cur>> \o SplitPathFrom(Tail(rest), <<>>)
    ELSE SplitPathFrom(Tail(rest), Append(cur, rest[1]))

SplitPath(path) == SplitPathFrom(path, <<>>)

\* item.path.replace(/[[.]/g, separator).replace(/]/g, '')
ToSelector(path, separator) ==
    Flatten([i \in 1..Len(path) |->
                IF path[i] = "[" \/ path[i] = "." THEN separator
                ELSE IF path[i] = "]" THEN <<>>
                ELSE <<path[i]>>])

\* name ? name.split(separator) : []
KeysOf(name, separator) == IF name = <<>> THEN <<>> ELSE Split(name, separator)

\* errorsMap.current.set(path, message)
CacheSet(cache, path, message) ==
    [p \in DOMAIN cache \cup {path} |-> IF p = path THEN message ELSE cache[p]]

\* errorsMap.current.get(path) === message, a slip for !==
CacheDiffersInverted(cache, path, message) == path \in DOMAIN cache /\ cache[path] = message

\* the comparison dropped: every failure counts as a change
CacheDiffersAlways(cache, path, message) == TRUE

\* errorsMap.current.get(path) !== '', the test for undefined left out
CacheHoldsErrorOrNothing(cache, path) == path \notin DOMAIN cache \/ cache[path] # <<>>

\* errorsMap.current.get(path) !== '' && errorsMap.current.get(path) !== undefined
CacheHoldsError(cache, path) == path \in DOMAIN cache /\ cache[path] # <<>>

\* errorsMap.current.get(path) !== message
CacheDiffers(cache, path, message) == path \notin DOMAIN cache \/ cache[path] # message

\* what dynamicValidation leaves: the annotated tree, the cache, the class
\* lists, whether it asked for a re-render, whether it threw, its cache key
\* and the message it caught (<<>> when the value is valid)
Validated(vo, cache, cls, reload, threw, path, message) ==
    [vo |-> vo, cache |-> cache, cls |-> cls, reload |-> reload, threw |-> threw,
     path |-> path, message |-> message]

\* the elements dynamicValidation marks valid or invalid
Marked(e) ==
    IF Attr(e).type \in {"radio", "checkbox"} THEN ByName(Attr(e).name) ELSE {e}

\* valid ? classList.remove('invalid') : classList.add('invalid')
MarkValidity(e, cls, valid) ==
    [x \in ElementIds |->
        IF x \notin Marked(e) THEN cls[x]
        ELSE IF valid THEN cls[x] \ {"invalid"}
        ELSE cls[x] \cup {"invalid"}]

\* the tail of dynamicValidation without the isSelect branch
dvFinishByCache(e, vo, cache, cls, valid, shouldUpdate, path, message) ==
    Validated(vo, cache, MarkValidity(e, cls, valid), shouldUpdate, FALSE, path, message)

\* the tail of dynamicValidation: the class marks and the reload decision
dvFinish(e, vo, cache, cls, valid, shouldUpdate, path, message) ==
    Validated(vo, cache, MarkValidity(e, cls, valid),
              Attr(e).dataSelect \/ shouldUpdate, FALSE, path, message)

\* the catch block once findKeyAndUpdateValue(keys, errors, element, message)
\* has returned w; reading .error of undefined throws
dvCaught(e, w, cache, cls, path, message) ==
    IF w.threw \/ w.ret.t = "undefined"
    THEN Validated(w.obj, cache, cls, FALSE, TRUE, path, message)
    ELSE dvFinish(e, w.obj, CacheSet(cache, path, Get(w.ret, <<"e", "r", "r", "o", "r">>).s),
                  cls, FALSE, CacheDiffers(cache, path, message), path, message)

\* the try block once the schema has accepted the value and
\* findKeyAndUpdateValue(keys, errors, element) has returned w; a TypeError
\* thrown by it is caught like a validation error
dvPassed(e, element, keys, w, cache, cls, path) ==
    IF w.threw
    THEN dvCaught(e, findKeyAndUpdateValue(keys, w.obj, element, MsgTypeError),
                  CacheSet(cache, path, <<>>), cls, path, MsgTypeError)
    ELSE dvFinish(e, w.obj, CacheSet(cache, path, <<>>), cls, TRUE,
                  CacheHoldsError(cache, path), path, <<>>)

\* the try / catch of dynamicValidation, verdict being the schema's answer
dvTry(e, element, keys, verdict, vo, cache, cls, path) ==
    IF verdict = <<>>
    THEN dvPassed(e, element, keys, findKeyAndUpdateValue(keys, vo, element, <<>>),
                  cache, cls, path)
    ELSE dvCaught(e, findKeyAndUpdateValue(keys, vo, element, verdict),
                  cache, cls, path, verdict)

\* dynamicValidation(name, values, element) on the annotated tree vo, the
\* cache and the class lists cls
dynamicValidation(e, value, values, vo, cache, cls) ==
    dvTry(e, ElementOf(e, value), KeysOf(Attr(e).name, Separator),
          ValidateSyncAt(ToSchemaPath(Attr(e).name, Separator), values),
          vo, cache, cls, ToSchemaPath(Attr(e).name, Separator))

\* ------------------------------------------------------------------------
\* The state machine

\* the record of an operation
Did(op, el, dv, path, message, dvReload, reloads, ret, threw, inner, arg) ==
    [op |-> op, el |-> el, dv |-> dv, path |-> path, message |-> message,
     dvReload |-> dvReload, reloads |-> reloads, ret |-> ret, threw |-> threw,
     inner |-> inner, arg |-> arg]

NoOp == Did("init", "none", FALSE, <<>>, <<>>, FALSE, 0, "none", FALSE, <<>>, Undef)

NoProbe ==
    [done |-> FALSE, keys |-> <<>>, separator |-> <<>>, name |-> <<>>, resolved |-> <<>>,
     written |-> <<>>, read |-> Undef]

\* the listeners the effect of render g adds to a wired element: action for
\* the change event when actionOnChange is set, else sub for change, focus
\* and blur; fn and gen name the closure, a new one on every render
Handlers(g) ==
    IF ActionOnChange
    THEN {[kind |-> "change", fn |-> "action", gen |-> g]}
    ELSE {[kind |-> k, fn |-> "sub", gen |-> g] : k \in {"change", "focus", "blur"}}

\* the listeners the cleanup of the effect of render g removes from an element
Removed(g) ==
    {[kind |-> k, fn |-> "sub", gen |-> g] : k \in {"change", "focus", "blur"}}
        \cup {[kind |-> "change", fn |-> "action", gen |-> g]}

\* the useEffect wires an element when fieldsMap holds its name
Wired(e) == Attr(e).name # <<>> /\ Attr(e).name \in fieldsMap

\* the body of the effect in render g: addEventListener on every named
\* element of the form that fieldsMap holds; ls are the listeners so far
effectAdd(ls, g) ==
    [e \in ElementIds |-> IF Wired(e) THEN ls[e] \cup Handlers(g) ELSE ls[e]]

\* the cleanup leaves every listener in place
effectCleanupNone(ls, g) == ls

\* the cleanup the effect of render g returned: removeEventListener on every
\* element it had selected
effectCleanup(ls, g) == [e \in ElementIds |-> ls[e] \ Removed(g)]

\* a re-render after reload(): the cleanup of the live effect, then the
\* effect of the new render
rebind(ls, g) == effectAdd(effectCleanup(ls, g), g + 1)

NoPending == [n |-> 0, el |-> "none"]

\* the first render of the hook for a host
InitOf(host) ==
    /\ config = host
    /\ fields = host.fields
    /\ aliased = TRUE
    /\ form = host.fields
    /\ validationObject = deepCopy(host.fields, Undef)
    /\ errorsMap = <<>>
    /\ fieldsMap = flattenObject(host.fields, Separator, <<>>, {}, FALSE)
    /\ classes = [e \in ElementIds |-> {}]
    /\ domValue = InitialDomValue
    /\ last = NoOp
    /\ prev = NoOp
    /\ steps = 0
    /\ probe = NoProbe
    /\ listeners = effectAdd([e \in ElementIds |-> {}], 1)
    /\ bound = 1
    /\ mounted = TRUE
    /\ pending = NoPending

Init == InitOf(ReadmeHost)

\* form.current after an operation; the host's fields object follows it
\* while form.current is that object
Store(newForm, newAliased) ==
    /\ form' = newForm
    /\ aliased' = newAliased
    /\ fields' = IF newAliased THEN newForm ELSE fields

Record(did) ==
    /\ last' = did
    /\ prev' = last
    /\ steps' = steps + 1
    /\ UNCHANGED <<probe, config>>

\* update(tree): form.current = tree, validationObject.current =
\* deepCopy(tree, validationObject.current), vo being the annotated tree so far
update(tree, vo, newAliased) ==
    /\ Store(tree, newAliased)
    /\ validationObject' = deepCopy(tree, vo)

\* an early return of sub
subReturn(e, evType, cls) ==
    /\ classes' = cls
    /\ UNCHANGED <<fields, aliased, form, validationObject, errorsMap>>
    /\ Record(Did(evType, e, FALSE, <<>>, <<>>, FALSE, 0, "none", FALSE, <<>>, Undef))

\* the end of sub: the update trigger
subTrigger(e, evType, newForm, vo, cache, cls, ran, path, message, dvReload, threw) ==
    /\ IF ~threw /\ Attr(e).name \in UpdateTriggers
       THEN update(newForm, vo, aliased)
       ELSE Store(newForm, aliased) /\ validationObject' = vo
    /\ errorsMap' = cache
    /\ classes' = cls
    /\ Record(Did(evType, e, ran, path, message, dvReload,
                  (IF dvReload THEN 1 ELSE 0)
                      + (IF ~threw /\ Attr(e).name \in UpdateTriggers THEN 1 ELSE 0),
                  "none", threw, <<>>, Undef))

\* sub after dynamicValidation has returned dv
subValidated(e, evType, newForm, dv) ==
    subTrigger(e, evType, newForm, dv.vo, dv.cache, dv.cls, TRUE, dv.path, dv.message,
               dv.reload, dv.threw)

\* sub once both trees are written: w1 for form.current, w2 for the annotated tree
subWritten(e, evType, value, w1, w2, cls) ==
    IF w1.threw
    THEN subTrigger(e, evType, w1.obj, validationObject, errorsMap, cls, FALSE, <<>>, <<>>,
                    FALSE, TRUE)
    ELSE IF w2.threw \/ ~ValidateOnChange
    THEN subTrigger(e, evType, w1.obj, w2.obj, errorsMap, cls, FALSE, <<>>, <<>>,
                    FALSE, w2.threw)
    ELSE subValidated(e, evType, w1.obj,
                      dynamicValidation(e, value, w1.obj, w2.obj, errorsMap, cls))

\* classList.add(mark) on the elements of a set
AddClass(cls, set, mark) ==
    [x \in ElementIds |-> IF x \in set THEN cls[x] \cup {mark} ELSE cls[x]]

\* the elements sub marks dirty
Dirtied(e, evType) ==
    IF Attr(e).type \in {"radio", "checkbox"} THEN ByName(Attr(e).name)
    ELSE IF evType = "change" THEN {e}
    ELSE {}

\* sub(e) for an event of kind evType on element e whose value is value
sub(e, evType, value) ==
    IF evType = "blur" /\ Attr(e).type \in {"radio", "checkbox"}
    THEN subReturn(e, evType, classes)
    ELSE IF evType = "focus" /\ Attr(e).type \in {"radio", "checkbox"}
    THEN subReturn(e, evType, AddClass(classes, ByName(Attr(e).name), "touched"))
    ELSE IF evType = "focus" /\ "touched" \notin classes[e]
    THEN subReturn(e, evType, AddClass(classes, {e}, "touched"))
    ELSE subWritten(e, evType, value,
             findKeyAndUpdateValue(KeysOf(Attr(e).name, Separator), form,
                                   ElementOf(e, value), <<>>),
             findKeyAndUpdateValue(KeysOf(Attr(e).name, Separator), validationObject,
                                   ElementOf(e, value), <<>>),
             AddClass(classes, Dirtied(e, evType), "dirty"))

\* action(e) once both trees are written; actionOnChange(form.current) is the
\* host's own code
actionWritten(e, w1, w2) ==
    /\ Store(w1.obj, aliased)
    /\ validationObject' = IF w1.threw THEN validationObject ELSE w2.obj
    /\ UNCHANGED <<errorsMap, classes>>
    /\ Record(Did("change", e, FALSE, <<>>, <<>>, FALSE, 0, "none", w1.threw \/ w2.threw,
                  <<>>, Undef))

\* action(e) for a change event on element e whose value is value
action(e, value) ==
    actionWritten(e,
        findKeyAndUpdateValue(KeysOf(Attr(e).name, Separator), form,
                              ElementOf(e, value), <<>>),
        findKeyAndUpdateValue(KeysOf(Attr(e).name, Separator), validationObject,
                              ElementOf(e, value), <<>>))

\* the listener the useEffect adds for the change event
onChange(e, value) ==
    IF ActionOnChange THEN action(e, value) ELSE sub(e, "change", value)

\* the user types a new value into a text input
Change(e, value) ==
    /\ steps < MaxSteps
    /\ Wired(e)
    /\ Attr(e).type = "text"
    /\ value # domValue[e]
    /\ domValue' = [domValue EXCEPT ![e] = value]
    /\ onChange(e, value)
    /\ UNCHANGED fieldsMap
    /\ UNCHANGED bindVars

\* the user clicks a checkbox or a radio
Click(e) ==
    /\ steps < MaxSteps
    /\ Wired(e)
    /\ Attr(e).type \in {"checkbox", "radio"}
    /\ onChange(e, domValue[e])
    /\ UNCHANGED <<fieldsMap, domValue>>
    /\ UNCHANGED bindVars

\* the user changes the selected options of a select
Select(e, selection) ==
    /\ steps < MaxSteps
    /\ Wired(e)
    /\ Attr(e).tag = "SELECT"
    /\ selection # domValue[e]
    /\ domValue' = [domValue EXCEPT ![e] = selection]
    /\ onChange(e, selection)
    /\ UNCHANGED fieldsMap
    /\ UNCHANGED bindVars

\* focus and blur have listeners only without actionOnChange
Focus(e) ==
    /\ steps < MaxSteps
    /\ Wired(e)
    /\ ~ActionOnChange
    /\ sub(e, "focus", domValue[e])
    /\ UNCHANGED <<fieldsMap, domValue>>
    /\ UNCHANGED bindVars

Blur(e) ==
    /\ steps < MaxSteps
    /\ Wired(e)
    /\ ~ActionOnChange
    /\ sub(e, "blur", domValue[e])
    /\ UNCHANGED <<fieldsMap, domValue>>
    /\ UNCHANGED bindVars

\* one item of e.inner: w is what findKeyAndUpdateValue returned for it
reportOne(inner, i, acc, w) ==
    [vo |-> w.obj,
     cache |-> CacheSet(acc.cache, inner[i].path, AggregateMessage(inner)),
     cls |-> IF w.threw THEN acc.cls
             ELSE AddClass(acc.cls, ByName(ToSelector(inner[i].path, Separator)), "invalid"),
     threw |-> w.threw]

RECURSIVE reportErrors(_, _, _)
\* the forEach over e.inner of validate(), from item i on; acc holds the
\* annotated tree, the cache and the class lists so far
reportErrors(inner, i, acc) ==
    IF i > Len(inner) \/ acc.threw THEN acc
    ELSE reportErrors(inner, i + 1,
             reportOne(inner, i, acc,
                 findKeyAndUpdateValue(SplitPath(inner[i].path), acc.vo, NoElement,
                                       inner[i].message)))

\* the catch block of validate(), bad being the outcome of the forEach
validateFailed(inner, bad) ==
    /\ UNCHANGED <<fields, aliased, form>>
    /\ validationObject' = bad.vo
    /\ errorsMap' = bad.cache
    /\ classes' = bad.cls
    /\ Record(Did("validate", "none", FALSE, <<>>, <<>>, FALSE,
                  IF bad.threw THEN 0 ELSE 1, IF bad.threw THEN "none" ELSE "false",
                  bad.threw, inner, Undef))

\* validate() without the fresh copy: the annotated tree so far is kept
validateWithStale(cleared, fresh, inner) ==
    IF inner = <<>>
    THEN /\ update(form, validationObject, aliased)
         /\ classes' = cleared
         /\ UNCHANGED errorsMap
         /\ Record(Did("validate", "none", FALSE, <<>>, <<>>, FALSE, 1, "true", FALSE,
                       inner, Undef))
    ELSE validateFailed(inner,
             reportErrors(inner, 1,
                 [vo |-> validationObject, cache |-> errorsMap, cls |-> cleared,
                  threw |-> FALSE]))

\* validate() past the schema check: cleared are the class lists without
\* 'invalid', fresh is deepCopy(form.current), inner what validateSync reports
validateWith(cleared, fresh, inner) ==
    IF inner = <<>>
    THEN /\ update(form, fresh, aliased)
         /\ classes' = cleared
         /\ UNCHANGED errorsMap
         /\ Record(Did("validate", "none", FALSE, <<>>, <<>>, FALSE, 1, "true", FALSE,
                       inner, Undef))
    ELSE validateFailed(inner,
             reportErrors(inner, 1,
                 [vo |-> fresh, cache |-> errorsMap, cls |-> cleared, threw |-> FALSE]))

\* validate()
Validate ==
    /\ steps < MaxSteps
    /\ IF ~HasSchema
       THEN /\ UNCHANGED <<fields, aliased, form, validationObject, errorsMap, classes>>
            /\ Record(Did("validate", "none", FALSE, <<>>, <<>>, FALSE, 0, "true", FALSE,
                          <<>>, Undef))
       ELSE validateWith(
                [x \in ElementIds |->
                    IF Attr(x).tag \in {"INPUT", "TEXTAREA"}
                    THEN classes[x] \ {"invalid"} ELSE classes[x]],
                deepCopy(form, Undef), ValidateSync(form))
    /\ UNCHANGED <<fieldsMap, domValue>>
    /\ UNCHANGED bindVars

\* the host calls update(tree) with a tree of its own
Update(tree) ==
    /\ steps < MaxSteps
    /\ update(tree, validationObject, FALSE)
    /\ Record(Did("update", "none", FALSE, <<>>, <<>>, FALSE, 1, "none", FALSE, <<>>, tree))
    /\ UNCHANGED <<errorsMap, fieldsMap, classes, domValue>>
    /\ UNCHANGED bindVars

\* clear(): update(fields)
Clear ==
    /\ steps < MaxSteps
    /\ update(fields, validationObject, TRUE)
    /\ Record(Did("clear", "none", FALSE, <<>>, <<>>, FALSE, 1, "none", FALSE, <<>>, fields))
    /\ UNCHANGED <<errorsMap, fieldsMap, classes, domValue>>
    /\ UNCHANGED bindVars

Next ==
    \/ \E e \in ElementIds, value \in TextValues : Change(e, value)
    \/ \E e \in ElementIds : Click(e)
    \/ \E e \in ElementIds : Focus(e)
    \/ \E e \in ElementIds : Blur(e)
    \/ Validate
    \/ \E tree \in config.trees : Update(tree)
    \/ Clear

Spec == Init /\ [][Next]_vars

\* the hook under the other hosts
InitHosts == \E host \in Hosts : InitOf(host)

NextHosts ==
    \/ Next
    \/ \E e \in ElementIds, selection \in Selections : Select(e, selection)

SpecHosts == InitHosts /\ [][NextHosts]_vars

\* hosts that configure validateOnChange and no schema
BareHosts ==
    {[fields |-> InitialFields, trees |-> NewTrees, schema |-> "none",
      validateOnChange |-> TRUE, actionOnChange |-> FALSE],
     [fields |-> ControlFields, trees |-> {}, schema |-> "none",
      validateOnChange |-> TRUE, actionOnChange |-> FALSE]}

InitBare == \E host \in BareHosts : InitOf(host)

\* hosts that configure a schema and leave validateOnChange at its default
QuietHosts ==
    {[fields |-> InitialFields, trees |-> NewTrees, schema |-> "books",
      validateOnChange |-> FALSE, actionOnChange |-> FALSE],
     [fields |-> ControlFields, trees |-> {}, schema |-> "controls",
      validateOnChange |-> FALSE, actionOnChange |-> FALSE]}

InitQuiet == \E host \in QuietHosts : InitOf(host)

\* the hook under the hosts that validate on validate() only
SpecQuiet == InitQuiet /\ [][NextHosts]_vars

\* the hook under the hosts without a schema
SpecBare == InitBare /\ [][NextHosts]_vars

\* ------------------------------------------------------------------------
\* The path of an element name, for any keys and any configured separator

\* keys of a tree: plain, numeric, empty, and keys holding a separator character
PathKeys == {<<"a">>, <<"0">>, <<>>, <<"_">>, <<"a", "_">>}

\* values of config.separator
Separators == {<<"_">>, <<"_", "_">>}

KeySeqs == UNION {[1..n -> PathKeys] : n \in 1..MaxKeys}

RECURSIVE TreeFor(_)
\* a tree in which the path keys exists and ends in a string leaf
TreeFor(keys) ==
    IF Len(keys) = 1 THEN ObjV(<<Prop(keys[1], StrV(<<"a">>))>>)
    ELSE ObjV(<<Prop(keys[1], TreeFor(Tail(keys)))>>)

\* a text input
TextInput(value) ==
    [type |-> "text", tag |-> "INPUT", multiple |-> FALSE, value |-> value, selected |-> <<>>]

\* what the probe holds once the element named name has written value
Probed(keys, separator, name, resolved, value, w) ==
    [done |-> TRUE, keys |-> keys, separator |-> separator, name |-> name,
     resolved |-> resolved, written |-> value, read |-> GetPath(w.obj, keys)]

\* sub's write: keys = element.name.split(separator);
\* findKeyAndUpdateValue(keys, form.current, element)
resolveNamed(keys, separator, name, resolved, value) ==
    Probed(keys, separator, name, resolved, value,
           findKeyAndUpdateValue(resolved, TreeFor(keys), TextInput(value), <<>>))

\* the host names one element after keys and the element receives value
Resolve(keys, separator, value) ==
    /\ ~probe.done
    /\ probe' = resolveNamed(keys, separator, Join(keys, separator),
                             KeysOf(Join(keys, separator), separator), value)
    /\ UNCHANGED <<fields, aliased, form, validationObject, errorsMap, fieldsMap,
                   classes, domValue, last, prev, steps, config, listeners, bound,
                   mounted, pending>>

NextPath ==
    \E keys \in KeySeqs, separator \in Separators, value \in TextValues :
        Resolve(keys, separator, value)

SpecPath == Init /\ [][NextPath]_vars

\* ------------------------------------------------------------------------
\* Properties

\* the annotated tree as construction leaves it
InitialAnnotated == deepCopy(InitialFields, Undef)

\* C1: after clear() both trees are the initial tree again: every leaf has
\* its initial value and no slot carries an error annotation.
C1_ClearResetsBothTrees ==
    last.op = "clear" => (form = InitialFields /\ validationObject = InitialAnnotated)

\* C2: a per-path validation that follows clear() and fails with the message
\* the cache already held for its path before clear() requests a re-render.
C2_ClearRefreshesCache ==
    [][(/\ last.op = "clear"
        /\ last'.dv /\ ~last'.threw
        /\ last'.message # <<>>
        /\ last'.path \in DOMAIN errorsMap
        /\ errorsMap[last'.path] = last'.message)
       => last'.dvReload]_vars

\* two consecutive operations are per-path validations of the same path by
\* elements that carry no data-select attribute
TwoValidations ==
    /\ prev.dv /\ ~prev.threw
    /\ last.dv /\ ~last.threw
    /\ prev.path = last.path
    /\ ~Attr(last.el).dataSelect

\* C3 as stated: of two consecutive per-path validations of one path with the
\* same outcome (the same message, or both valid), the first requests a
\* re-render and the second does not.
C3_OnlyFirstRenders ==
    (TwoValidations /\ prev.message = last.message) => (prev.dvReload /\ ~last.dvReload)

\* C3: of two consecutive per-path validations of one path with the same
\* outcome (the same message, or both valid), the second requests no re-render.
C3_SameOutcomeNoSecondRender ==
    (TwoValidations /\ prev.message = last.message) => ~last.dvReload

\* C3 happens: the same message twice, a re-render for the first only
C3_Witness ==
    /\ TwoValidations
    /\ prev.message = MsgMax /\ last.message = MsgMax
    /\ prev.dvReload /\ ~last.dvReload

\* C4 as stated: of two consecutive per-path validations of one path whose
\* outcomes differ, both request a re-render.
C4_ChangedOutcomeBothRender ==
    (TwoValidations /\ prev.message # last.message) => (prev.dvReload /\ last.dvReload)

\* C4: of two consecutive per-path validations of one path whose
\* outcomes differ, the second requests a re-render.
C4_ChangedOutcomeSecondRenders ==
    (TwoValidations /\ prev.message # last.message) => last.dvReload

\* C4 happens: a valid value on a fresh cache (no re-render), then a failure
C4_Witness ==
    /\ TwoValidations
    /\ prev.message = <<>> /\ last.message = MsgRequired
    /\ ~prev.dvReload /\ last.dvReload

\* the key sequence the schema declares for a path of the form
DeclaredKeys(path) ==
    SelectSeq(SchemaEntries(form), LAMBDA en : en.path = path)[1].keys

\* v is an annotation pair { value, error }
IsPair(v) == v.t = "object" /\ OwnKeys(v) = <<KeyValue, KeyError>>

\* C5: after a failed validate(), the annotated slot of every reported path
\* is { value: the form's value at that path, error: the reported message }.
C5_FailedValidationAnnotates ==
    (last.op = "validate" /\ last.ret = "false") =>
        \A i \in 1..Len(last.inner) :
            /\ last.inner[i].message # <<>>
            /\ GetPath(validationObject, DeclaredKeys(last.inner[i].path))
                   = ErrorPair(GetPath(form, DeclaredKeys(last.inner[i].path)),
                               last.inner[i].message)

\* C6: after any validate(), every leaf the schema declares carries an
\* annotation pair in the annotated tree.
C6_ValidationAnnotatesEveryLeaf ==
    (last.op = "validate" /\ ~last.threw) =>
        \A i \in 1..Len(SchemaEntries(form)) :
            IsPair(GetPath(validationObject, SchemaEntries(form)[i].keys))

\* a leaf of a value tree: a scalar, or a list of scalars
IsLeaf(v) == ~IsObjLike(v) \/ (IsArray(v) /\ \A i \in 1..Len(v.kids) : ~IsObjLike(v.kids[i].v))

RECURSIVE ShapeAt(_, _)
\* the mapping and list nodes below v, each with its place and its keys
ShapeAt(v, path) ==
    IF IsLeaf(v) THEN {}
    ELSE {[path |-> path, list |-> IsArray(v), keys |-> {v.kids[i].k : i \in 1..Len(v.kids)}]}
         \cup UNION {ShapeAt(v.kids[i].v, Append(path, v.kids[i].k)) : i \in 1..Len(v.kids)}

ShapeOf(tree) == ShapeAt(tree, <<>>)

\* C7: only update() and clear() change the shape of the value tree.
C7_EventsKeepShape ==
    [][last'.op \notin {"update", "clear"} => ShapeOf(form') = ShapeOf(form)]_vars

RECURSIVE LeafPathsAt(_, _)
\* the key sequences of the leaves below v
LeafPathsAt(v, path) ==
    IF IsLeaf(v) THEN {path}
    ELSE UNION {LeafPathsAt(v.kids[i].v, Append(path, v.kids[i].k)) : i \in 1..Len(v.kids)}

\* the annotated tree vo has the mapping keys and list lengths of tree
HasShapeOf(vo, tree) ==
    \A node \in ShapeOf(tree) :
        {OwnKeys(GetPath(vo, node.path))[i] : i \in 1..Len(OwnKeys(GetPath(vo, node.path)))}
            = node.keys

\* C8: update(newTree) makes the form newTree, gives the annotated tree
\* newTree's shape, and keeps the error annotation of every path that the
\* previous annotated tree and newTree share.
C8_UpdateKeepsAnnotations ==
    [][last'.op = "update" =>
          /\ form' = last'.arg
          /\ HasShapeOf(validationObject', last'.arg)
          /\ \A p \in LeafPathsAt(last'.arg, <<>>) :
                IsPair(GetPath(validationObject, p)) =>
                    /\ IsPair(GetPath(validationObject', p))
                    /\ Get(GetPath(validationObject', p), KeyError)
                           = Get(GetPath(validationObject, p), KeyError)]_vars

\* the members of the list a slot holds (none when it holds no list)
Members(v) == IF IsArray(v) THEN {v.kids[i].v : i \in 1..Len(v.kids)} ELSE {}

\* the members after a toggle of value
Toggled(set, value) == IF StrV(value) \in set THEN set \ {StrV(value)} ELSE set \cup {StrV(value)}

\* C10: a checkbox event adds the element's value to the slot's list when it
\* is absent and removes it when present (a slot that holds no list counts
\* as empty), and a second toggle of the same value restores the membership.
C10_CheckboxToggles ==
    [][(last'.op = "change" /\ Attr(last'.el).type = "checkbox") =>
          /\ IsArray(GetPath(form', <<KeyT>>))
          /\ Members(GetPath(form', <<KeyT>>))
                 = Toggled(Members(GetPath(form, <<KeyT>>)), domValue[last'.el])
          /\ Members(ElementValue(GetPath(form', <<KeyT>>),
                                  ElementOf(last'.el, domValue[last'.el])))
                 = Members(GetPath(form, <<KeyT>>))]_vars

\* C10 happens: two clicks on the same checkbox leave the list empty again
C10_Witness ==
    /\ prev.op = "change" /\ prev.el = "eTb"
    /\ last.op = "change" /\ last.el = "eTb"
    /\ GetPath(form, <<KeyT>>) = ArrV(<<>>)

\* no key holds a character of the separator, and the name is not empty
SeparableKeys(keys, separator) ==
    /\ Join(keys, separator) # <<>>
    /\ \A i \in 1..Len(keys) : \A j \in 1..Len(keys[i]) : \A c \in 1..Len(separator) :
           keys[i][j] # separator[c]

\* the name gives back the keys, and the value written is the value read
RoundTrips == probe.resolved = probe.keys /\ probe.read = StrV(probe.written)

\* C9 as stated: for any key sequence, splitting the joined name gives the
\* key sequence back, and a text value written at the path is read back.
C9_AnyKeysRoundTrip == probe.done => RoundTrips

\* C9: for a key sequence whose keys hold no character of the separator and
\* whose joined name is not empty, splitting the joined name gives the key
\* sequence back, and a text value written at the path is read back.
C9_SeparableKeysRoundTrip ==
    (probe.done /\ SeparableKeys(probe.keys, probe.separator)) => RoundTrips

\* C9 happens: a three-key path through a list index is written and read back
C9_Witness ==
    /\ probe.done
    /\ probe.keys = <<<<"a">>, <<"0">>, <<"a">>>>
    /\ probe.written = <<"x">>
    /\ SeparableKeys(probe.keys, probe.separator)
    /\ RoundTrips

\* C11: validate() never raises and returns a boolean: false exactly when
\* the schema reports failures, true otherwise (also without a schema).
C11_ValidateNeverRaises ==
    last.op = "validate" =>
        /\ ~last.threw
        /\ last.ret \in {"true", "false"}
        /\ (last.ret = "false") = (last.inner # <<>>)

RECURSIVE PathExists(_, _)
\* every key of keys is an own key of the node it is looked up in
PathExists(v, keys) ==
    keys = <<>> \/ (HasKey(v, keys[1]) /\ PathExists(Get(v, keys[1]), Tail(keys)))

\* the name of element e is empty or resolves to a path the tree does not hold
AbsentIn(e, tree) ==
    Attr(e).name = <<>> \/ ~PathExists(tree, KeysOf(Attr(e).name, Separator))

\* C12: an event of an element whose name resolves to a path absent from the
\* form raises no error and leaves the form and the annotated tree unchanged.
C12_AbsentPathIsSkipped ==
    [][(last'.op \in {"change", "focus", "blur"} /\ AbsentIn(last'.el, form)) =>
          /\ ~last'.threw
          /\ form' = form
          /\ validationObject' = validationObject]_vars

\* C13: after update(newTree), every element whose name addresses a path of
\* the new form is wired.
C13_UpdateRewires ==
    last.op = "update" =>
        \A e \in ElementIds : ~AbsentIn(e, form) => Wired(e)

RECURSIVE HasAnnotation(_)
\* some slot of the tree is an annotation pair
HasAnnotation(v) ==
    IsPair(v) \/ (IsObjLike(v) /\ \E i \in 1..Len(v.kids) : HasAnnotation(v.kids[i].v))

SlotOf(e, vo) == GetPath(vo, KeysOf(Attr(e).name, Separator))

\* C16: after a per-path validation of an element whose path exists in the
\* form, a success leaves the slot without an error and the cache entry
\* empty; a failure leaves the slot { value, error: message } and the cache
\* entry equal to the message.
C16_SlotAndCacheFollowOutcome ==
    [][(last'.dv /\ ~AbsentIn(last'.el, form)) =>
          IF last'.message = <<>>
          THEN /\ ~IsPair(SlotOf(last'.el, validationObject'))
               /\ errorsMap'[last'.path] = <<>>
          ELSE /\ IsPair(SlotOf(last'.el, validationObject'))
               /\ Get(SlotOf(last'.el, validationObject'), KeyError) = StrV(last'.message)
               /\ errorsMap'[last'.path] = last'.message]_vars

\* C16 happens: a failed validation of u after an earlier one, slot and cache
\* holding the new message
C16_Witness ==
    /\ prev.dv /\ prev.path = <<"u">> /\ prev.message = MsgRequired
    /\ last.dv /\ last.path = <<"u">> /\ last.message = MsgMax
    /\ validationObject.kids[1].v = ErrorPair(StrV(<<"x", "x">>), MsgMax)
    /\ errorsMap[<<"u">>] = MsgMax

\* C17: after a failed validate(), the cache entry of every reported path is
\* that path's own message, the one written into the annotated tree, also
\* when several paths failed at once.
C17_CacheHoldsOwnMessage ==
    (last.op = "validate" /\ last.ret = "false") =>
        \A i \in 1..Len(last.inner) :
            /\ last.inner[i].path \in DOMAIN errorsMap
            /\ errorsMap[last.inner[i].path] = last.inner[i].message

C19_ChangeIsValidated ==
    (last.op = "change" /\ ValidateOnChange /\ HasSchema) =>
        /\ last.dv
        /\ last.path = ToSchemaPath(Attr(last.el).name, Separator)

\* the operation d is a change event of one of the radios named r
RadioEvent(d) == d.op = "change" /\ Attr(d.el).type = "radio"

\* nothing but radio events has happened since construction
OnlyRadioEvents ==
    \/ steps = 0
    \/ steps = 1 /\ RadioEvent(last)
    \/ steps = 2 /\ RadioEvent(prev) /\ RadioEvent(last)

\* the value an annotated slot carries: the value of the pair, or the slot
Carried(v) == IF IsPair(v) THEN Get(v, KeyValue) ELSE v

\* C20: a slot that is a number at construction holds a number after any
\* sequence of radio events, in the form and in the value the annotated tree
\* carries alike.
C20_RadioKeepsNumber ==
    (Get(config.fields, KeyR).t = "number" /\ OnlyRadioEvents) =>
        /\ Get(form, KeyR).t = "number"
        /\ Carried(Get(validationObject, KeyR)).t = "number"

\* the first focus of an element: it does not carry 'touched' yet
FirstFocus == last'.op = "focus" /\ "touched" \notin classes[last'.el]

\* C21: an element that a per-path validation marks valid or invalid is
\* already dirty, and the first focus of an element only marks it touched:
\* it writes no tree and runs no validation.
C21_MarksFollowOrder ==
    [][/\ (last'.dv /\ ~last'.threw) =>
              \A x \in Marked(last'.el) : "dirty" \in classes'[x]
       /\ FirstFocus =>
              /\ ~last'.dv
              /\ form' = form /\ validationObject' = validationObject
              /\ errorsMap' = errorsMap
              /\ \A x \in ElementIds : classes'[x] \ {"touched"} = classes[x] \ {"touched"}
              /\ "touched" \in classes'[last'.el]]_vars

\* ------------------------------------------------------------------------
\* The binding of the elements: re-renders, the effect and its cleanup

\* the listeners of element e for the change event
ChangeListeners(e) == {l \in listeners[e] : l.kind = "change"}

\* the re-render that follows a handler or a call that asked for reload():
\* the effect depends on [time, fieldsMap], so its cleanup and its body run
\* again; asked tells whether reload() was called
rerender(asked) ==
    /\ listeners' = IF asked THEN rebind(listeners, bound) ELSE listeners
    /\ bound' = IF asked THEN bound + 1 ELSE bound
    /\ UNCHANGED mounted

\* the host calls update(tree); the component re-renders and binds again
Rebind(tree) ==
    /\ mounted /\ pending.n = 0
    /\ steps < MaxSteps
    /\ update(tree, validationObject, FALSE)
    /\ Record(Did("update", "none", FALSE, <<>>, <<>>, FALSE, 1, "none", FALSE, <<>>, tree))
    /\ rerender(TRUE)
    /\ UNCHANGED <<errorsMap, fieldsMap, classes, domValue, pending>>

\* the browser dispatches a change event to element e: each of its change
\* listeners runs in turn, one per step; value is element.value
Dispatch(e, value) ==
    /\ mounted
    /\ steps < MaxSteps
    /\ ChangeListeners(e) # {}
    /\ Attr(e).type \in {"text", "checkbox"}
    /\ IF pending.n = 0
       THEN (Attr(e).type = "text") = (value # domValue[e])
       ELSE e = pending.el /\ value = domValue[e]
    /\ domValue' = [domValue EXCEPT ![e] = value]
    /\ onChange(e, value)
    /\ pending' = IF pending.n > 0 THEN [pending EXCEPT !.n = pending.n - 1]
                  ELSE [n |-> Cardinality(ChangeListeners(e)) - 1, el |-> e]
    /\ rerender(last'.reloads > 0)
    /\ UNCHANGED fieldsMap

\* the component unmounts: the cleanup of the live effect runs
Unmount ==
    /\ mounted /\ pending.n = 0
    /\ steps < MaxSteps
    /\ mounted' = FALSE
    /\ listeners' = effectCleanup(listeners, bound)
    /\ Record(Did("unmount", "none", FALSE, <<>>, <<>>, FALSE, 0, "none", FALSE, <<>>, Undef))
    /\ UNCHANGED <<fields, aliased, form, validationObject, errorsMap, fieldsMap, classes,
                   domValue, bound, pending>>

NextBind ==
    \/ \E tree \in config.trees : Rebind(tree)
    \/ \E e \in ElementIds : \E value \in TextValues \cup {domValue[e]} : Dispatch(e, value)
    \/ Unmount

SpecBind == Init /\ [][NextBind]_vars

WriteKeys == {KeyU, KeyT, KeyB, KeyN, <<"0">>, <<"1">>, KeyValue}

\* the paths written: from the empty path to MaxKeys keys
WritePaths == UNION {[1..n -> WriteKeys] : n \in 0..MaxKeys}

\* the trees written: the README's fields, a tree with two books, and the
\* annotated tree a failed validate() leaves
WriteTrees ==
    {InitialFields,
     ObjV(<<Prop(KeyU, StrV(<<"x">>)),
            Prop(KeyT, ArrV(<<StrV(<<"a">>)>>)),
            Prop(KeyB, ArrV(<<Book(<<>>), Book(<<"x">>)>>))>>),
     ObjV(<<Prop(KeyU, ErrorPair(StrV(<<>>), MsgRequired)),
            Prop(KeyT, ObjV(<<Prop(<<"0">>, StrV(<<"a">>))>>)),
            Prop(KeyB, ObjV(<<Prop(<<"0">>,
                                   ObjV(<<Prop(KeyN, ErrorPair(StrV(<<>>), MsgRequired))>>))>>))>>)}

\* the elements passed: none, a text input, a checkbox, a radio and a
\* multiple select
WriteElements ==
    {NoElement,
     TextInput(<<"x">>),
     [type |-> "checkbox", tag |-> "INPUT", multiple |-> FALSE, value |-> <<"a">>,
      selected |-> <<>>],
     [type |-> "radio", tag |-> "INPUT", multiple |-> FALSE, value |-> <<"1">>,
      selected |-> <<>>],
     [type |-> "none", tag |-> "SELECT", multiple |-> TRUE, value |-> <<"a">>,
      selected |-> <<<<"a">>, <<"b">>>>]}

\* what the probe holds once findKeyAndUpdateValue(keys, tree, element, error)
\* has returned w
Written(keys, tree, element, error, w) ==
    [done |-> TRUE, keys |-> keys, tree |-> tree, element |-> element, error |-> error,
     obj |-> w.obj, ret |-> w.ret, threw |-> w.threw]

\* one call of findKeyAndUpdateValue
Write(keys, tree, element, error) ==
    /\ ~probe.done
    /\ probe' = Written(keys, tree, element, error,
                        findKeyAndUpdateValue(keys, tree, element, error))
    /\ UNCHANGED <<fields, aliased, form, validationObject, errorsMap, fieldsMap,
                   classes, domValue, last, prev, steps, config, listeners, bound,
                   mounted, pending>>

NextWrite ==
    /\ ~probe.done
    /\ \E keys \in WritePaths, tree \in WriteTrees, element \in WriteElements,
          error \in {<<>>, MsgMax} :
           Write(keys, tree, element, error)

SpecWrite == Init /\ [][NextWrite]_vars

\* the keys of v other than k, in enumeration order
SiblingKeys(v, k) == SelectSeq(OwnKeys(v), LAMBDA x : x # k)

RECURSIVE SameExcept(_, _, _)
\* the trees a and b differ at most in the slot the path keys addresses:
\* along the path every container keeps its kind, its other keys, their
\* order and their values
SameExcept(a, b, keys) ==
    IF keys = <<>> THEN TRUE
    ELSE /\ a.t = b.t /\ a.s = b.s
         /\ SiblingKeys(a, keys[1]) = SiblingKeys(b, keys[1])
         /\ \A i \in 1..Len(SiblingKeys(a, keys[1])) :
                Get(a, SiblingKeys(a, keys[1])[i]) = Get(b, SiblingKeys(a, keys[1])[i])
         /\ SameExcept(Get(a, keys[1]), Get(b, keys[1]), Tail(keys))

\* C23: a call of findKeyAndUpdateValue changes at most the slot its path
\* addresses: every sibling key and every other branch of the tree is as
\* before; with an empty path the tree is unchanged and undefined is returned.
C23_WriteTouchesOneSlot ==
    probe.done =>
        /\ SameExcept(probe.tree, probe.obj, probe.keys)
        /\ probe.keys = <<>> => (probe.obj = probe.tree /\ probe.ret = Undef /\ ~probe.threw)

\* C23 happens: a text input writes the title of the first book of a tree
\* with two books; the second book, u and t are as before
C23_Witness ==
    /\ probe.done
    /\ probe.keys = <<KeyB, <<"0">>, KeyN>>
    /\ probe.element = TextInput(<<"x">>) /\ probe.error = <<>>
    /\ GetPath(probe.tree, <<KeyB, <<"1">>, KeyN>>) = StrV(<<"x">>)
    /\ GetPath(probe.tree, probe.keys) = StrV(<<>>)
    /\ GetPath(probe.obj, probe.keys) = StrV(<<"x">>)
    /\ GetPath(probe.obj, <<KeyB, <<"1">>, KeyN>>) = StrV(<<"x">>)
    /\ Get(probe.obj, KeyU) = Get(probe.tree, KeyU)

\* a and b hold the same value: the same scalar, or lists of the same items
SameValue(a, b) ==
    IF IsObjLike(b) THEN IsObjLike(a) /\ Items(a) = Items(b) ELSE a = b

\* C24: for every leaf path of the form the annotated tree holds the form's
\* value at that path, as the plain slot or as the value of the pair
\* { value, error }.
C24_TreesAgree ==
    \A p \in LeafPathsAt(form, <<>>) :
        SameValue(Carried(GetPath(validationObject, p)), GetPath(form, p))

\* C25: update() copies a leaf of the new tree whose path the annotated tree
\* so far does not hold as the new tree's value: the new field starts
\* unannotated, holding the value given.
C25_NewLeafIsCopied ==
    [][last'.op \in {"update", "clear"} =>
          \A p \in LeafPathsAt(form', <<>>) :
              ~PathExists(validationObject, p) =>
                  SameValue(GetPath(validationObject', p), GetPath(form', p))]_vars

\* ------------------------------------------------------------------------
\* flattenObject on trees of any spelling, order and separator

\* keys of the trees flattened: tn holds the key t after its first character
FlatKeys == {<<"t">>, <<"t", "n">>, <<"n">>}

\* the leaves: a scalar, an empty list, a list of one scalar
FlatLeaves == {StrV(<<>>), ArrV(<<>>), ArrV(<<StrV(<<"a">>)>>)}

\* mapping nodes of one or two leaves, in either order
FlatNodes ==
    {ObjV(<<Prop(k, v)>>) : k \in FlatKeys, v \in FlatLeaves}
        \cup {ObjV(<<Prop(kv[1], kv[3]), Prop(kv[2], kv[4])>>) :
                 kv \in {x \in FlatKeys \X FlatKeys \X FlatLeaves \X FlatLeaves : x[1] # x[2]}}

\* the trees: such a node, at the top or below one or two mapping keys
FlatTrees ==
    FlatNodes
        \cup {ObjV(<<Prop(k, node)>>) : k \in FlatKeys, node \in FlatNodes}
        \cup {ObjV(<<Prop(kk[1], ObjV(<<Prop(kk[2], node)>>))>>) :
                 kk \in FlatKeys \X FlatKeys, node \in FlatNodes}

\* what the probe holds once flattenObject(tree, ref, separator) has returned map
Flattened(tree, separator, map) ==
    [done |-> TRUE, tree |-> tree, separator |-> separator, map |-> map]

\* one call of flattenObject, as the useMemo of fieldsMap makes it
Flattens(tree, separator) ==
    /\ ~probe.done
    /\ probe' = Flattened(tree, separator, flattenObject(tree, separator, <<>>, {}, FALSE))
    /\ UNCHANGED <<fields, aliased, form, validationObject, errorsMap, fieldsMap,
                   classes, domValue, last, prev, steps, config, listeners, bound,
                   mounted, pending>>

NextFlatten ==
    /\ ~probe.done
    /\ \E tree \in FlatTrees, separator \in Separators : Flattens(tree, separator)

SpecFlatten == Init /\ [][NextFlatten]_vars

\* C26: flattenObject marks exactly the names of the tree's leaves, scalars
\* and lists of scalars (empty lists too): the keys of the leaf's path joined
\* by the separator, whatever the spelling of the keys and their order.
C26_MarksExactlyLeaves ==
    probe.done =>
        probe.map = {Join(p, probe.separator) : p \in LeafPathsAt(probe.tree, <<>>)}

\* ------------------------------------------------------------------------
\* The schema path of an element name, for mapping keys and list indices

\* mapping keys, one of them holding a digit
MappingKeys == {<<"a">>, <<"n">>, <<"b", "1">>}

\* list indices
IndexKeys == {<<"0">>, <<"1">>}

\* the paths of a tree: a mapping key, then mapping keys and indices
SchemaKeySeqs ==
    {keys \in UNION {[1..n -> MappingKeys \cup IndexKeys] : n \in 1..MaxKeys} :
        keys[1] \in MappingKeys}

\* what the probe holds once the name of a path has been translated
Translated(keys, separator, name, path) ==
    [done |-> TRUE, keys |-> keys, separator |-> separator, name |-> name, path |-> path]

\* the host names an element after keys; dynamicValidation computes its path
Translate(keys, separator) ==
    /\ ~probe.done
    /\ probe' = Translated(keys, separator, Join(keys, separator),
                           ToSchemaPath(Join(keys, separator), separator))
    /\ UNCHANGED <<fields, aliased, form, validationObject, errorsMap, fieldsMap,
                   classes, domValue, last, prev, steps, config, listeners, bound,
                   mounted, pending>>

NextTranslate ==
    /\ ~probe.done
    /\ \E keys \in SchemaKeySeqs, separator \in Separators : Translate(keys, separator)

SpecTranslate == Init /\ [][NextTranslate]_vars

RECURSIVE SchemaNotation(_)
\* the schema's notation of the keys after the first: [index] for a list
\* index, .key for a mapping key; item.path of a validation error is written so
SchemaNotation(keys) ==
    IF keys = <<>> THEN <<>>
    ELSE (IF keys[1] \in IndexKeys THEN <<"[">> \o keys[1] \o <<"]">>
          ELSE <<".">> \o keys[1])
             \o SchemaNotation(Tail(keys))

\* C27: the path computed from an element's name is the schema's notation of
\* its keys, dot for a mapping key and [index] for a list index, which is
\* the key under which validate() stores the path in the cache.
C27_NameBecomesSchemaPath ==
    probe.done => probe.path = probe.keys[1] \o SchemaNotation(Tail(probe.keys))

\* C28: without a schema no operation writes an error annotation or marks an
\* element invalid, and an event asks for no re-render, validateOnChange or
\* not.
C28_NoSchemaNoErrors ==
    ~HasSchema =>
        /\ ~HasAnnotation(validationObject)
        /\ \A e \in ElementIds : "invalid" \notin classes[e]
        /\ last.op \in {"change", "focus", "blur"} => last.reloads = 0

\* the error the annotated tree vo holds at the slot of element e: the
\* message of the pair, or nothing
ErrorStateAt(e, vo) ==
    IF IsPair(SlotOf(e, vo)) THEN Get(SlotOf(e, vo), KeyError) ELSE Undef

\* C29: when the annotated tree is as last rendered (the operation before
\* asked for a re-render, or nothing has happened since the first render),
\* an event that leaves another error state at its element's path asks for a
\* re-render.
C29_ChangedErrorIsRendered ==
    [][(/\ last.op = "init" \/ last.reloads > 0
        /\ last'.op \in {"change", "focus", "blur"}
        /\ ~AbsentIn(last'.el, form)
        /\ ErrorStateAt(last'.el, validationObject')
               # ErrorStateAt(last'.el, validationObject))
           => last'.reloads > 0]_vars

\* C30: without validateOnChange a change event leaves the structure of the
\* annotated slot it addresses: a plain slot stays plain, and a pair
\* { value, error } stays a pair with the same error.
C30_EditKeepsAnnotation ==
    [][(last'.op = "change" /\ ~ValidateOnChange /\ ~AbsentIn(last'.el, form)) =>
          /\ IsPair(SlotOf(last'.el, validationObject'))
                 = IsPair(SlotOf(last'.el, validationObject))
          /\ IsPair(SlotOf(last'.el, validationObject)) =>
                 Get(SlotOf(last'.el, validationObject'), KeyError)
                     = Get(SlotOf(last'.el, validationObject), KeyError)]_vars

====
